---- MODULE Spec2Model ----
(***************************************************************************)
(* Model of the kcpdump-rs front end: the App component with the IPv4      *)
(* filter (src/unnamed/part_000), the IP distribution component            *)
(* (src/unnamed/part_002) and the IPv4 table component                     *)
(* (src/src/components/IPv4Filter.vue, second script block).  The two      *)
(* backend commands the App invokes are not part of the front end; they    *)
(* are modelled from the specification of the capture-file parser.         *)
(*                                                                         *)
(* Conventions                                                             *)
(*  - a value of type `number | null` is a sequence: <<>> is null and      *)
(*    <<n>> is the number n;                                               *)
(*  - a computed() of the source is an operator over the state it reads;   *)
(*  - a percentage string produced by toFixed(2) is kept as the integer    *)
(*    number of hundredths it denotes ("33.33" is 3333).                   *)
(***************************************************************************)
EXTENDS Integers, Sequences, FiniteSets, TLC

VARIABLES
    ipv4Packets,        \* part_000:37   ref, the loaded IPv4 records
    ipv4Filter,         \* part_000:58   ref, the filter criteria
    isFiltered,         \* part_000:66   ref
    ipv4CurrentPage,    \* part_000:51   ref
    message,            \* part_000:55   the last message shown, "" before any
    statsPackets,       \* part_002:7    props.packets of the distribution component
    sourceIpStatsValue, \* part_002:27   the computed: stale, or its cached value
    destIpStatsValue,   \* part_002:40   the computed: stale, or its cached value
    protocolNum,        \* IPv4Filter.vue:187  row.protocol of the row being rendered
    protocolLabel,      \* IPv4Filter.vue:189  text of the rendered protocol tag, "" before rendering
    filePath,           \* part_000:29   ref
    packets,            \* part_000:30   ref, the loaded Ethernet records
    isLoading,          \* part_000:46   ref
    currentPage,        \* part_000:49   ref
    packetsPerPage,     \* part_000:50   ref
    ipv4PacketsPerPage, \* part_000:52   ref
    runs,               \* part_000:156-194  the executions of pickFile / analyzeFile
    capFile,            \* the capture file handed to analyze_pcap
    capResult           \* what analyze_pcap returned for capFile

filterVars == <<ipv4Packets, ipv4Filter, isFiltered, ipv4CurrentPage, message>>
statsVars == <<statsPackets, sourceIpStatsValue, destIpStatsValue>>
protocolVars == <<protocolNum, protocolLabel>>
loadVars == <<filePath, packets, isLoading, currentPage, packetsPerPage,
              ipv4PacketsPerPage, runs>>
parserVars == <<capFile, capResult>>
vars == <<ipv4Packets, ipv4Filter, isFiltered, ipv4CurrentPage, message,
          statsPackets, sourceIpStatsValue, destIpStatsValue,
          protocolNum, protocolLabel,
          filePath, packets, isLoading, currentPage, packetsPerPage,
          ipv4PacketsPerPage, runs, capFile, capResult>>

----------------------------------------------------------------------------
(* Bounds of the model *)

\* longest IPv4 record sequence drawn as filter input
MaxLen == 2

\* tsSec values of drawn records
TsSecs == {0, 1}
\* tsUsec values of drawn records: just below and exactly one millisecond
TsUsecs == {999, 1000}
\* IP addresses of drawn records
Ips == {"10.0.0.1", "10.0.0.2"}
\* values typed into the IP field of the filter form
FilterIps == {"", "10.0.0.1"}
\* millisecond values the date pickers may deliver
FilterTimes == {0, 1000}
\* direction values: the three options of the select, and one that is none of them
Directions == {"any", "source", "dest", "both"}

Null == <<>>
Some(n) == <<n>>

\* the record type of ipv4Packets
Ipv4Records ==
    [sourceIp : Ips, destIp : Ips, protocol : {6}, ttl : {64},
     tsSec : TsSecs, tsUsec : TsUsecs, totalLength : {20}]

SeqsUpTo(S, n) == UNION {[1..k -> S] : k \in 0..n}

\* the type of ipv4Filter
FilterCriteria ==
    [startTime : {Null} \cup {Some(t) : t \in FilterTimes},
     endTime : {Null} \cup {Some(t) : t \in FilterTimes},
     ipAddress : FilterIps,
     direction : Directions]

----------------------------------------------------------------------------
(* The filter: filteredIpv4Packets of part_000 *)

\* `!x` for x : number | null
Falsy(x) == x = Null \/ x = Some(0)

\* part_000:80
packetTime(packet) == packet.tsSec * 1000 + (packet.tsUsec \div 1000)

\* part_000:81-83
timeMatches(packet, f) ==
    /\ (Falsy(f.startTime) \/ packetTime(packet) >= f.startTime[1])
    /\ (Falsy(f.endTime) \/ packetTime(packet) <= f.endTime[1])

\* ipMatches with the "dest" case comparing the source address
ipMatchesDestReadsSource(packet, f) ==
    IF f.ipAddress # ""
    THEN CASE f.direction = "source" -> packet.sourceIp = f.ipAddress
           [] f.direction = "dest" -> packet.sourceIp = f.ipAddress
           [] f.direction = "any" ->
                  packet.sourceIp = f.ipAddress \/ packet.destIp = f.ipAddress
           [] OTHER -> TRUE
    ELSE TRUE

\* ipMatches without the test for an empty filter address
ipMatchesNoEmptyTest(packet, f) ==
    CASE f.direction = "source" -> packet.sourceIp = f.ipAddress
      [] f.direction = "dest" -> packet.destIp = f.ipAddress
      [] f.direction = "any" ->
             packet.sourceIp = f.ipAddress \/ packet.destIp = f.ipAddress
      [] OTHER -> TRUE

\* ipMatches with a restrictive default case
ipMatchesDefaultFalse(packet, f) ==
    IF f.ipAddress # ""
    THEN CASE f.direction = "source" -> packet.sourceIp = f.ipAddress
           [] f.direction = "dest" -> packet.destIp = f.ipAddress
           [] f.direction = "any" ->
                  packet.sourceIp = f.ipAddress \/ packet.destIp = f.ipAddress
           [] OTHER -> FALSE
    ELSE TRUE

\* part_000:88-102
ipMatches(packet, f) ==
    IF f.ipAddress # ""
    THEN CASE f.direction = "source" -> packet.sourceIp = f.ipAddress
           [] f.direction = "dest" -> packet.destIp = f.ipAddress
           [] f.direction = "any" ->
                  packet.sourceIp = f.ipAddress \/ packet.destIp = f.ipAddress
           [] OTHER -> TRUE
    ELSE TRUE

\* part_000:78-103, the callback given to Array.prototype.filter
filterCallback(packet, f) ==
    IF ~timeMatches(packet, f) THEN FALSE ELSE ipMatches(packet, f)

\* Array.prototype.filter: the elements the callback accepts, in order
Filter(records, f) == SelectSeq(records, LAMBDA packet : filterCallback(packet, f))

\* filteredIpv4Packets without the test of isFiltered
filteredIpv4PacketsIgnoringFlag == Filter(ipv4Packets, ipv4Filter)

\* part_000:75-104
filteredIpv4Packets ==
    IF ~isFiltered THEN ipv4Packets ELSE Filter(ipv4Packets, ipv4Filter)

\* part_000:58-63 and 145-150
EmptyFilter == [startTime |-> Null, endTime |-> Null, ipAddress |-> "", direction |-> "any"]

----------------------------------------------------------------------------
(* Operations on the filter *)

\* v-model of the filter form, part_000:360-388; updateFilter, IPv4Filter.vue:29-32
UpdateFilter ==
    /\ \E key \in {"startTime", "endTime", "ipAddress", "direction"} :
         \E value \in (CASE key = "ipAddress" -> FilterIps
                         [] key = "direction" -> Directions
                         [] OTHER -> {Null} \cup {Some(t) : t \in FilterTimes}) :
            /\ ipv4Filter[key] # value
            /\ ipv4Filter' = [ipv4Filter EXCEPT ![key] = value]
    /\ UNCHANGED <<ipv4Packets, isFiltered, ipv4CurrentPage, message>>
    /\ UNCHANGED <<statsVars, protocolVars, loadVars, parserVars>>

\* applyFilter storing the filtered list in place of the loaded one
applyFilterInPlace ==
    /\ isFiltered' = TRUE
    /\ ipv4CurrentPage' = 1
    /\ message' = "success"
    /\ ipv4Packets' = Filter(ipv4Packets, ipv4Filter)
    /\ UNCHANGED ipv4Filter
    /\ UNCHANGED <<statsVars, protocolVars, loadVars, parserVars>>

\* part_000:138-142
applyFilter ==
    /\ isFiltered' = TRUE
    /\ ipv4CurrentPage' = 1
    /\ message' = "success"
    /\ UNCHANGED <<ipv4Packets, ipv4Filter>>
    /\ UNCHANGED <<statsVars, protocolVars, loadVars, parserVars>>

\* part_000:144-154
clearFilter ==
    /\ ipv4Filter' = EmptyFilter
    /\ isFiltered' = FALSE
    /\ ipv4CurrentPage' = 1
    /\ message' = "info"
    /\ UNCHANGED ipv4Packets
    /\ UNCHANGED <<statsVars, protocolVars, loadVars, parserVars>>

\* number of executions of pickFile / analyzeFile that may be under way at once
MaxRuns == 2
Runs == 1..MaxRuns

\* part_000:29-52: the refs of the load before any file is picked
LoadIdle ==
    /\ filePath = ""
    /\ packets = <<>>
    /\ isLoading = FALSE
    /\ currentPage = 1
    /\ packetsPerPage = 5
    /\ ipv4PacketsPerPage = 5
    /\ runs = [r \in Runs |-> [pc |-> "idle", path |-> "", outcome |-> "none"]]

\* no capture file has been handed to the parser
ParserIdle ==
    /\ capFile = [magic |-> <<0, 0, 0, 0>>, snaplen |-> 0, records |-> <<>>]
    /\ capResult = [done |-> FALSE, ok |-> FALSE, records |-> <<>>, ipv4Records |-> <<>>]

StatsIdle ==
    /\ statsPackets = <<>>
    /\ sourceIpStatsValue = [dirty |-> TRUE, value |-> <<>>]
    /\ destIpStatsValue = [dirty |-> TRUE, value |-> <<>>]

ProtocolIdle ==
    /\ protocolNum = 0
    /\ protocolLabel = ""

\* the filter form over an already loaded record list
InitFilter ==
    /\ ipv4Packets \in SeqsUpTo(Ipv4Records, MaxLen)
    /\ ipv4Filter = EmptyFilter
    /\ isFiltered = FALSE
    /\ ipv4CurrentPage = 1
    /\ message = ""
    /\ StatsIdle
    /\ ProtocolIdle
    /\ LoadIdle
    /\ ParserIdle

NextFilter ==
    \/ UpdateFilter
    \/ applyFilter
    \/ clearFilter

SpecFilter == InitFilter /\ [][NextFilter]_vars

----------------------------------------------------------------------------
(* The IP distributions: sourceIpStats and destIpStats of part_002 *)

\* longest record sequence drawn with arbitrary addresses
MaxStatsLen == 3
\* longest record sequence drawn with addresses dealt out in turn
MaxSpread == 31

\* the n-th address of a dealt sequence
IpNo(n) == "10.0.0." \o ToString(n)

\* n records whose source addresses are d addresses dealt out in turn and
\* whose destination addresses change every d records
Spread(n, d) ==
    [i \in 1..n |->
        [sourceIp |-> IpNo(((i - 1) % d) + 1), destIp |-> IpNo(((i - 1) \div d) + 1),
         protocol |-> 6, ttl |-> 64, tsSec |-> 0, tsUsec |-> 0, totalLength |-> 20]]

StatsRecords ==
    [sourceIp : Ips, destIp : Ips, protocol : {6}, ttl : {64},
     tsSec : {0}, tsUsec : {0}, totalLength : {20}]

\* the values of props.packets
StatsInputs ==
    SeqsUpTo(StatsRecords, MaxStatsLen)
        \cup UNION {{Spread(n, d) : d \in 1..n} : n \in 1..MaxSpread}

\* a computed: stale, or holding the value of its last evaluation
Dirty == [dirty |-> TRUE, value |-> <<>>]
Computed(v) == [dirty |-> FALSE, value |-> v]

\* part_002:28-32 (and 41-45): stats as the list of its [ip, count] pairs in
\* key insertion order, after the loop has visited the first n packets
RECURSIVE countAll(_, _, _)
\* the loop with `stats[ip] = 1` in place of the increment
countAllNoIncrement(pkts, key, n) ==
    IF n = 0 THEN <<>>
    ELSE LET stats == countAll(pkts, key, n - 1)
             ip == pkts[n][key]
             at == {j \in 1..Len(stats) : stats[j][1] = ip}
         IN  IF at = {}
             THEN Append(stats, <<ip, 1>>)
             ELSE [j \in 1..Len(stats) |-> IF j \in at THEN <<ip, 1>> ELSE stats[j]]

countAll(pkts, key, n) ==
    IF n = 0 THEN <<>>
    ELSE LET stats == countAll(pkts, key, n - 1)
             ip == pkts[n][key]
             at == {j \in 1..Len(stats) : stats[j][1] = ip}
         IN  IF at = {}
             THEN Append(stats, <<ip, 1>>)
             ELSE [j \in 1..Len(stats) |->
                      IF j \in at THEN <<ip, stats[j][2] + 1>> ELSE stats[j]]

\* toFixed(2) with the digits cut off instead of rounded
toFixed2Truncating(count, total) == (count * 10000) \div total

\* part_002:36 (and 49): ((count / total) * 100).toFixed(2), in hundredths.
\* toFixed rounds to the nearest hundredth and takes the larger one on a tie;
\* a tie needs total to be a multiple of 32, and for total = 32 the quotient
\* and the product are exact in binary floating point.
toFixed2(count, total) == (2 * count * 10000 + total) \div (2 * total)

\* Array.prototype.sort with the comparator (a, b) => a.value - b.value
RECURSIVE sortByValueAscending(_)
sortByValueAscending(entries) ==
    IF entries = <<>> THEN <<>>
    ELSE LET sorted == sortByValueAscending(SubSeq(entries, 1, Len(entries) - 1))
             e == entries[Len(entries)]
             before == {j \in 1..Len(sorted) : sorted[j].value <= e.value}
             k == Cardinality(before)
         IN  SubSeq(sorted, 1, k) \o <<e>> \o SubSeq(sorted, k + 1, Len(sorted))

\* part_002:37 (and 50): Array.prototype.sort with (a, b) => b.value - a.value;
\* the sort is stable, so entries of equal value keep their order
RECURSIVE sortByValue(_)
sortByValue(entries) ==
    IF entries = <<>> THEN <<>>
    ELSE LET sorted == sortByValue(SubSeq(entries, 1, Len(entries) - 1))
             e == entries[Len(entries)]
             before == {j \in 1..Len(sorted) : sorted[j].value >= e.value}
             k == Cardinality(before)
         IN  SubSeq(sorted, 1, k) \o <<e>> \o SubSeq(sorted, k + 1, Len(sorted))

\* the distribution with a placeholder entry when there are no packets
ipStatsPlaceholder(pkts, key) ==
    IF pkts = <<>>
    THEN <<[name |-> "", value |-> 0, percentage |-> 0]>>
    ELSE LET stats == countAll(pkts, key, Len(pkts))
         IN  sortByValue([j \in 1..Len(stats) |->
                            [name |-> stats[j][1],
                             value |-> stats[j][2],
                             percentage |-> toFixed2(stats[j][2], Len(pkts))]])

\* part_002:27-38 with key = "sourceIp", part_002:40-51 with key = "destIp"
ipStats(pkts, key) ==
    LET stats == countAll(pkts, key, Len(pkts))
    IN  sortByValue([j \in 1..Len(stats) |->
                       [name |-> stats[j][1],
                        value |-> stats[j][2],
                        percentage |-> toFixed2(stats[j][2], Len(pkts))]])

\* part_002:27-38
sourceIpStats == ipStats(statsPackets, "sourceIp")

\* part_002:40-51
destIpStats == ipStats(statsPackets, "destIp")

\* the parent passes another packets prop; both computeds become stale
PacketsChanged ==
    /\ \E pkts \in StatsInputs :
          /\ pkts # statsPackets
          /\ statsPackets' = pkts
    /\ sourceIpStatsValue' = Dirty
    /\ destIpStatsValue' = Dirty
    /\ UNCHANGED <<filterVars, protocolVars, loadVars, parserVars>>

\* sourceIpStats.value is read (part_002:81, 90) while stale
EvaluateSourceIpStats ==
    /\ sourceIpStatsValue.dirty
    /\ sourceIpStatsValue' = Computed(sourceIpStats)
    /\ UNCHANGED <<statsPackets, destIpStatsValue>>
    /\ UNCHANGED <<filterVars, protocolVars, loadVars, parserVars>>

\* destIpStats.value is read (part_002:118, 127) while stale
EvaluateDestIpStats ==
    /\ destIpStatsValue.dirty
    /\ destIpStatsValue' = Computed(destIpStats)
    /\ UNCHANGED <<statsPackets, sourceIpStatsValue>>
    /\ UNCHANGED <<filterVars, protocolVars, loadVars, parserVars>>

FilterIdle ==
    /\ ipv4Packets = <<>>
    /\ ipv4Filter = EmptyFilter
    /\ isFiltered = FALSE
    /\ ipv4CurrentPage = 1
    /\ message = ""

\* the distribution component over any packets prop
InitStats ==
    /\ statsPackets \in StatsInputs
    /\ sourceIpStatsValue = Dirty
    /\ destIpStatsValue = Dirty
    /\ FilterIdle
    /\ ProtocolIdle
    /\ LoadIdle
    /\ ParserIdle

NextStats ==
    \/ PacketsChanged
    \/ EvaluateSourceIpStats
    \/ EvaluateDestIpStats

SpecStats == InitStats /\ [][NextStats]_vars

----------------------------------------------------------------------------
(* Protocol labels: getProtocolName of part_000 and of the IPv4 table *)

\* largest protocol number, the field being one byte of the IPv4 header
MaxProtocol == 255

\* part_000:197-203, IPv4Filter.vue:138-144
protocolMap ==
    (1 :> "ICMP") @@ (2 :> "IGMP") @@ (6 :> "TCP") @@ (17 :> "UDP") @@ (89 :> "OSPF")

\* the label of an unmapped number without the number
getProtocolNameNoNumber(protocolNum_) ==
    IF protocolNum_ \in DOMAIN protocolMap /\ protocolMap[protocolNum_] # ""
    THEN protocolMap[protocolNum_]
    ELSE "unknown"

\* part_000:206-208, IPv4Filter.vue:147-149: protocolMap[n] || `...(${n})`.
\* The source writes the word "unknown" of the template literal in Chinese;
\* it is spelled in English here, the rest of the template is as in the source.
getProtocolName(protocolNum_) ==
    IF protocolNum_ \in DOMAIN protocolMap /\ protocolMap[protocolNum_] # ""
    THEN protocolMap[protocolNum_]
    ELSE "unknown(" \o ToString(protocolNum_) \o ")"

\* IPv4Filter.vue:187-191 (part_000:275-279): the protocol cell of a row is rendered
RenderProtocol ==
    /\ protocolLabel = ""
    /\ protocolLabel' = getProtocolName(protocolNum)
    /\ UNCHANGED protocolNum
    /\ UNCHANGED <<filterVars, statsVars, loadVars, parserVars>>

\* the table goes on to a row with another protocol number
NextRow ==
    /\ \E n \in 0..MaxProtocol :
          /\ n # protocolNum
          /\ protocolNum' = n
    /\ protocolLabel' = ""
    /\ UNCHANGED <<filterVars, statsVars, loadVars, parserVars>>

\* the protocol column over any protocol number
InitProtocol ==
    /\ protocolNum \in 0..MaxProtocol
    /\ protocolLabel = ""
    /\ FilterIdle
    /\ StatsIdle
    /\ LoadIdle
    /\ ParserIdle

NextProtocol ==
    \/ RenderProtocol
    \/ NextRow

SpecProtocol == InitProtocol /\ [][NextProtocol]_vars

----------------------------------------------------------------------------
(* The backend commands analyze_pcap and analyze_ipv4_packets.  Their code *)
(* is not in the front end; this is the parser of the specification        *)
(* (Container Parser, Ethernet Decoder, IPv4 Decoder).  A capture file is  *)
(* kept as its magic number, its snaplen and its records; a record keeps   *)
(* the number of bytes of its 16-byte header and of its payload that are   *)
(* present in the file, and the values of the fields the decoders read.    *)
(* The byte order the magic number selects is applied when the fields are  *)
(* read, so the fields are kept as the numbers they denote.                *)

\* the two accepted magic numbers, 0xA1B2C3D4 and 0xD4C3B2A1, byte by byte
MagicNative == <<161, 178, 195, 212>>
MagicSwapped == <<212, 195, 178, 161>>
\* length of a record header, of an Ethernet header, and of both with a
\* minimal IPv4 header
RecordHeaderLen == 16
EthernetHeaderLen == 14
Ipv4FrameLen == 34
\* ethertype of IPv4, 0x0800
EtherTypeIpv4 == 2048

\* Container Parser: the records read from the i-th on.  Reading stops at a
\* record whose header or payload is not wholly present; a record that
\* declares more captured bytes than snaplen is skipped.
RECURSIVE readRecords(_, _)
\* the parser with a truncated record discarding what was read before it
readRecordsAllOrNothing(file, i) ==
    IF \E k \in i..Len(file.records) :
           \/ file.records[k].hdr < RecordHeaderLen
           \/ file.records[k].present < file.records[k].caplen
    THEN <<>>
    ELSE SelectSeq(SubSeq(file.records, i, Len(file.records)),
                   LAMBDA r : r.caplen <= file.snaplen)

readRecords(file, i) ==
    IF i > Len(file.records) THEN <<>>
    ELSE LET r == file.records[i]
         IN  IF r.hdr < RecordHeaderLen THEN <<>>
             ELSE IF r.present < r.caplen THEN <<>>
             ELSE IF r.caplen > file.snaplen THEN readRecords(file, i + 1)
             ELSE <<r>> \o readRecords(file, i + 1)

\* Container Parser: a bad magic number is a fatal format error
parseCapture(file) ==
    IF file.magic \notin {MagicNative, MagicSwapped}
    THEN [ok |-> FALSE, records |-> <<>>]
    ELSE [ok |-> TRUE, records |-> readRecords(file, 1)]

HexDigits == <<"0", "1", "2", "3", "4", "5", "6", "7",
               "8", "9", "a", "b", "c", "d", "e", "f">>

\* a byte as two lowercase hex digits
Hex2(b) == HexDigits[(b \div 16) + 1] \o HexDigits[(b % 16) + 1]

\* 6 bytes as lowercase colon-hex
formatMac(m) ==
    Hex2(m[1]) \o ":" \o Hex2(m[2]) \o ":" \o Hex2(m[3]) \o ":" \o
    Hex2(m[4]) \o ":" \o Hex2(m[5]) \o ":" \o Hex2(m[6])

\* 4 bytes as dotted decimal
formatIp(a) ==
    ToString(a[1]) \o "." \o ToString(a[2]) \o "." \o ToString(a[3]) \o "." \o ToString(a[4])

\* Ethernet Decoder: the ethertype resolution table
ethertypeLabel(code) ==
    CASE code = 2048 -> "IPv4"
      [] code = 2054 -> "ARP"
      [] code = 33024 -> "VLAN"
      [] code = 34525 -> "IPv6"
      [] OTHER -> "unknown(" \o ToString(code) \o ")"

MapSeq(seq, Op(_)) == [i \in 1..Len(seq) |-> Op(seq[i])]

\* Ethernet Decoder: the record of a payload of at least 14 bytes
decodeEthernet(r) ==
    [ethType |-> ethertypeLabel(r.ethertype),
     source |-> formatMac(r.src),
     target |-> formatMac(r.dst),
     tsSec |-> r.tsSec,
     tsUsec |-> r.tsUsec]

\* IPv4 Decoder: the record of an IPv4 payload with a well-formed header
decodeIpv4(r) ==
    [sourceIp |-> formatIp(r.sourceIp),
     destIp |-> formatIp(r.destIp),
     protocol |-> r.protocol,
     ttl |-> r.ttl,
     tsSec |-> r.tsSec,
     tsUsec |-> r.tsUsec,
     totalLength |-> r.totalLength]

hasEthernet(r) == r.caplen >= EthernetHeaderLen

hasIpv4(r) ==
    /\ hasEthernet(r)
    /\ r.ethertype = EtherTypeIpv4
    /\ r.caplen >= Ipv4FrameLen
    /\ r.verIhl \div 16 = 4
    /\ r.verIhl % 16 >= 5

\* analyze_pcap(filePath) of the specification, on the contents of the file
analyze_pcap(file) ==
    LET parsed == parseCapture(file)
    IN  [ok |-> parsed.ok,
         records |-> MapSeq(SelectSeq(parsed.records, hasEthernet), decodeEthernet)]

\* analyze_ipv4_packets(filePath) of the specification, on the contents of the file
analyze_ipv4_packets(file) ==
    LET parsed == parseCapture(file)
    IN  [ok |-> parsed.ok,
         records |-> MapSeq(SelectSeq(parsed.records, hasIpv4), decodeIpv4)]

----------------------------------------------------------------------------
(* The capture files *)

MacA == <<170, 170, 170, 170, 170, 170>>
MacB == <<187, 187, 187, 187, 187, 187>>

\* a complete record holding a TCP segment from 10.0.0.s to 10.0.0.d
RawIpv4(ts, us, s, d) ==
    [hdr |-> 16, tsSec |-> ts, tsUsec |-> us, caplen |-> 34, present |-> 34,
     dst |-> MacA, src |-> MacB, ethertype |-> 2048, verIhl |-> 69, ttl |-> 64,
     protocol |-> 6, totalLength |-> 20,
     sourceIp |-> <<10, 0, 0, s>>, destIp |-> <<10, 0, 0, d>>]

\* a complete record holding an ARP frame
RawArp(ts, us) ==
    [hdr |-> 16, tsSec |-> ts, tsUsec |-> us, caplen |-> 42, present |-> 42,
     dst |-> MacB, src |-> MacA, ethertype |-> 2054, verIhl |-> 0, ttl |-> 0,
     protocol |-> 0, totalLength |-> 0,
     sourceIp |-> <<0, 0, 0, 0>>, destIp |-> <<0, 0, 0, 0>>]

\* the files the dialog may return
Paths == {"a.pcap", "b.pcap"}

\* the contents of the files: six IPv4 frames; an ARP frame and an IPv4 frame
FileAt(path) ==
    IF path = "a.pcap"
    THEN [magic |-> MagicNative, snaplen |-> 65535,
          records |-> <<RawIpv4(0, 0, 1, 2), RawIpv4(0, 999, 2, 1), RawIpv4(0, 1000, 1, 2),
                        RawIpv4(1, 0, 2, 1), RawIpv4(1, 999, 1, 2), RawIpv4(1, 1000, 2, 2)>>]
    ELSE [magic |-> MagicSwapped, snaplen |-> 65535,
          records |-> <<RawArp(2, 0), RawIpv4(2, 500000, 2, 1)>>]

----------------------------------------------------------------------------
(* Loading a file: pickFile and analyzeFile of part_000.  An execution is  *)
(* at "idle", at "dialog" (awaiting open), at "awaitEth" (awaiting         *)
(* analyze_pcap) or at "awaitIpv4" (awaiting analyze_ipv4_packets); path   *)
(* is the filePath its pending invoke was given, and outcome tells how its *)
(* last analyzeFile ended: "none", "skipped", "ok" or "failed".            *)

\* invoke('analyze_pcap', { filePath }) and invoke('analyze_ipv4_packets',
\* { filePath }) of part_000:172 and 175: what the backend answers for each
\* path when it does not reject on its own; a path that names no file is
\* always rejected
NoSuchFile == [ok |-> FALSE, records |-> <<>>]
invokeAnalyzePcap ==
    [path \in Paths \cup {""} |->
        IF path \in Paths THEN analyze_pcap(FileAt(path)) ELSE NoSuchFile]
invokeAnalyzeIpv4Packets ==
    [path \in Paths \cup {""} |->
        IF path \in Paths THEN analyze_ipv4_packets(FileAt(path)) ELSE NoSuchFile]

pageVars == <<currentPage, packetsPerPage, ipv4PacketsPerPage>>
idleVars == <<statsVars, protocolVars, parserVars>>

RunAt(r, pc, path, outcome) ==
    [runs EXCEPT ![r] = [pc |-> pc, path |-> path, outcome |-> outcome]]

InFlight(r) == runs[r].pc \in {"awaitEth", "awaitIpv4"}

\* part_000:156-159 and 309: the button is clicked; it takes no click while
\* it shows isLoading
pickFile(r) ==
    /\ runs[r].pc = "idle"
    /\ ~isLoading
    /\ runs' = RunAt(r, "dialog", "", runs[r].outcome)
    /\ UNCHANGED <<filterVars, filePath, packets, isLoading, pageVars, idleVars>>

\* part_000:160: the dialog is closed without a file
DialogCancelled(r) ==
    /\ runs[r].pc = "dialog"
    /\ runs' = RunAt(r, "idle", "", runs[r].outcome)
    /\ UNCHANGED <<filterVars, filePath, packets, isLoading, pageVars, idleVars>>

\* analyzeFile entered with an empty path setting isLoading all the same
AnalyzeEntryNoPathTest(r, path) ==
    /\ isLoading' = TRUE
    /\ runs' = RunAt(r, "awaitEth", path, "none")

\* part_000:166-172: analyzeFile up to its first await, filePath being path
AnalyzeEntry(r, path) ==
    IF path = ""
    THEN /\ runs' = RunAt(r, "idle", "", "skipped")
         /\ UNCHANGED isLoading
    ELSE /\ isLoading' = TRUE
         /\ runs' = RunAt(r, "awaitEth", path, "none")

\* part_000:160-162: the dialog returns a file
DialogSelected(r) ==
    /\ runs[r].pc = "dialog"
    /\ \E selected \in Paths :
          /\ filePath' = selected
          /\ AnalyzeEntry(r, selected)
    /\ UNCHANGED <<filterVars, packets, pageVars, idleVars>>

\* part_000:166: analyzeFile called on the path already stored, as the
\* 'analyze' event of part_004:22 does
analyzeFile(r) ==
    /\ runs[r].pc = "idle"
    /\ ~isLoading
    /\ AnalyzeEntry(r, filePath)
    /\ UNCHANGED <<filterVars, filePath, packets, pageVars, idleVars>>

\* part_000:172-175: analyze_pcap resolves; the result is stored and
\* analyze_ipv4_packets is invoked with the filePath of that moment
EthResolves(r) ==
    /\ runs[r].pc = "awaitEth"
    /\ invokeAnalyzePcap[runs[r].path].ok
    /\ packets' = invokeAnalyzePcap[runs[r].path].records
    /\ runs' = RunAt(r, "awaitIpv4", filePath, "none")
    /\ UNCHANGED <<filterVars, filePath, isLoading, pageVars, idleVars>>

\* the catch block without the message
RejectedSilently(r) ==
    /\ isLoading' = FALSE
    /\ runs' = RunAt(r, "idle", "", "failed")
    /\ UNCHANGED <<ipv4Packets, ipv4Filter, isFiltered, ipv4CurrentPage, message>>
    /\ UNCHANGED <<filePath, packets, pageVars, idleVars>>

\* part_000:188-193: the catch and finally blocks
Rejected(r) ==
    /\ message' = "error"
    /\ isLoading' = FALSE
    /\ runs' = RunAt(r, "idle", "", "failed")
    /\ UNCHANGED <<ipv4Packets, ipv4Filter, isFiltered, ipv4CurrentPage>>
    /\ UNCHANGED <<filePath, packets, pageVars, idleVars>>

\* part_000:172: analyze_pcap rejects, the file being unreadable or malformed
EthRejects(r) ==
    /\ runs[r].pc = "awaitEth"
    /\ Rejected(r)

\* analyze_ipv4_packets resolving without the call of clearFilter
Ipv4ResolvesKeepingFilter(r) ==
    /\ runs[r].pc = "awaitIpv4"
    /\ invokeAnalyzeIpv4Packets[runs[r].path].ok
    /\ ipv4Packets' = invokeAnalyzeIpv4Packets[runs[r].path].records
    /\ message' = "success"
    /\ isLoading' = FALSE
    /\ runs' = RunAt(r, "idle", "", "ok")
    /\ UNCHANGED <<ipv4Filter, isFiltered, ipv4CurrentPage>>
    /\ UNCHANGED <<filePath, packets, pageVars, idleVars>>

\* part_000:175-193: analyze_ipv4_packets resolves; the result is stored, a
\* message is shown, clearFilter runs (its message is the last one shown)
\* and the finally block ends the execution
Ipv4Resolves(r) ==
    /\ runs[r].pc = "awaitIpv4"
    /\ invokeAnalyzeIpv4Packets[runs[r].path].ok
    /\ ipv4Packets' = invokeAnalyzeIpv4Packets[runs[r].path].records
    /\ ipv4Filter' = EmptyFilter
    /\ isFiltered' = FALSE
    /\ ipv4CurrentPage' = 1
    /\ message' = "info"
    /\ isLoading' = FALSE
    /\ runs' = RunAt(r, "idle", "", "ok")
    /\ UNCHANGED <<filePath, packets, pageVars, idleVars>>

\* part_000:175: analyze_ipv4_packets rejects
Ipv4Rejects(r) ==
    /\ runs[r].pc = "awaitIpv4"
    /\ Rejected(r)

\* the App before any file is picked
InitLoad ==
    /\ FilterIdle
    /\ StatsIdle
    /\ ProtocolIdle
    /\ LoadIdle
    /\ ParserIdle

NextLoad ==
    \E r \in Runs :
        \/ pickFile(r)
        \/ DialogCancelled(r)
        \/ DialogSelected(r)
        \/ analyzeFile(r)
        \/ EthResolves(r)
        \/ EthRejects(r)
        \/ Ipv4Resolves(r)
        \/ Ipv4Rejects(r)

\* the loads alone, with up to MaxRuns executions under way at once
SpecLoad == InitLoad /\ [][NextLoad]_vars

\* every pending backend call is answered in the end
FairLoad ==
    \A r \in Runs :
        /\ WF_vars(EthResolves(r) \/ EthRejects(r))
        /\ WF_vars(Ipv4Resolves(r) \/ Ipv4Rejects(r))

SpecLoadFair == SpecLoad /\ FairLoad

----------------------------------------------------------------------------
(* The App as its user drives it: one execution of pickFile / analyzeFile  *)
(* at a time, and the filter form and the two paginations while they are    *)
(* on display.                                                              *)

\* the page sizes chosen in the size picker, of part_000:346 and 423
PageSizes == {5, 10}

\* Math.ceil(length / perPage) for perPage > 0
Ceil(length, perPage) == (length + perPage - 1) \div perPage

\* Array.prototype.slice(start, end) for 0 <= start <= end
slice(seq, start, end) ==
    IF start >= Len(seq) THEN <<>>
    ELSE SubSeq(seq, start + 1, IF end < Len(seq) THEN end ELSE Len(seq))

\* paginatedPackets starting at the page after the current one
paginatedPacketsNextPage ==
    LET start == currentPage * packetsPerPage
        end == start + packetsPerPage
    IN  slice(packets, start, end)

\* part_000:68-72
paginatedPackets ==
    LET start == (currentPage - 1) * packetsPerPage
        end == start + packetsPerPage
    IN  slice(packets, start, end)

\* part_000:106-110
paginatedIpv4Packets ==
    LET start == (ipv4CurrentPage - 1) * ipv4PacketsPerPage
        end == start + ipv4PacketsPerPage
    IN  slice(filteredIpv4Packets, start, end)

\* part_000:112-114
totalPages == Ceil(Len(packets), packetsPerPage)

\* part_000:116-118
totalIpv4Pages == Ceil(Len(filteredIpv4Packets), ipv4PacketsPerPage)

\* part_000:323-327: the tabs, with the form and the paginations, are on
\* display when no load is under way and there are Ethernet records
TabsShown == ~isLoading /\ Len(packets) > 0

\* the pages a pagination of pageCount pages offers
PagesOffered(pageCount) == 1..(IF pageCount < 1 THEN 1 ELSE pageCount)

\* part_000:120-122, from the pagination of part_000:342-350
handlePageChange ==
    /\ TabsShown
    /\ \E page \in PagesOffered(totalPages) :
          /\ page # currentPage
          /\ currentPage' = page
    /\ UNCHANGED <<filterVars, filePath, packets, isLoading, packetsPerPage,
                   ipv4PacketsPerPage, runs, idleVars>>

\* part_000:124-127
handlePageSizeChange ==
    /\ TabsShown
    /\ \E pageSize \in PageSizes :
          /\ pageSize # packetsPerPage
          /\ packetsPerPage' = pageSize
    /\ currentPage' = 1
    /\ UNCHANGED <<filterVars, filePath, packets, isLoading,
                   ipv4PacketsPerPage, runs, idleVars>>

\* part_000:129-131, from the pagination of part_000:419-427
handleIpv4PageChange ==
    /\ TabsShown
    /\ \E page \in PagesOffered(totalIpv4Pages) :
          /\ page # ipv4CurrentPage
          /\ ipv4CurrentPage' = page
    /\ UNCHANGED <<ipv4Packets, ipv4Filter, isFiltered, message>>
    /\ UNCHANGED <<loadVars, idleVars>>

\* part_000:133-136
handleIpv4PageSizeChange ==
    /\ TabsShown
    /\ \E pageSize \in PageSizes :
          /\ pageSize # ipv4PacketsPerPage
          /\ ipv4PacketsPerPage' = pageSize
    /\ ipv4CurrentPage' = 1
    /\ UNCHANGED <<ipv4Packets, ipv4Filter, isFiltered, message>>
    /\ UNCHANGED <<filePath, packets, isLoading, currentPage, packetsPerPage,
                   runs, idleVars>>

\* part_000:360-388: a field of the form on display is edited
FormUpdateFilter == TabsShown /\ UpdateFilter

\* part_000:394: the apply button of the form on display
FormApplyFilter == TabsShown /\ applyFilter

\* part_000:395: the clear button of the form on display
FormClearFilter == TabsShown /\ clearFilter

Init == InitLoad

Next ==
    \/ pickFile(1)
    \/ DialogCancelled(1)
    \/ DialogSelected(1)
    \/ analyzeFile(1)
    \/ EthResolves(1)
    \/ EthRejects(1)
    \/ Ipv4Resolves(1)
    \/ Ipv4Rejects(1)
    \/ FormUpdateFilter
    \/ FormApplyFilter
    \/ FormClearFilter
    \/ handlePageChange
    \/ handlePageSizeChange
    \/ handleIpv4PageChange
    \/ handleIpv4PageSizeChange

Spec == Init /\ [][Next]_vars

----------------------------------------------------------------------------
(* The parser over capture files that end in a truncated record *)

\* most records of a drawn capture file
MaxFileRecords == 3

\* a record whose payload is an Ethernet header and nothing more
RawEthernetOnly(ts, us) ==
    [RawArp(ts, us) EXCEPT !.caplen = 14, !.present = 14]

\* records that are wholly in the file
WholeRecords == {RawIpv4(0, 0, 1, 2), RawArp(0, 1), RawEthernetOnly(0, 2)}

\* records the file ends in the middle of: 11 of the 16 header bytes, or
\* 29 of the 34 payload bytes the header declares
CutRecords ==
    {[RawIpv4(0, 3, 2, 1) EXCEPT !.hdr = 11, !.present = 0],
     [RawIpv4(0, 4, 2, 1) EXCEPT !.present = 29]}

\* the record lists of the drawn files: whole records, and possibly a cut
\* one at the end
RecordLists ==
    UNION {{whole \o last :
              whole \in [1..k -> WholeRecords],
              last \in {<<>>} \cup {<<c>> : c \in CutRecords \cup WholeRecords}} :
           k \in 0..(MaxFileRecords - 1)}

\* the drawn files: either byte order or no pcap magic number at all; a
\* snaplen above every record, or one below the ARP record
CapFiles ==
    [magic : {MagicNative, MagicSwapped, <<0, 0, 0, 0>>},
     snaplen : {40, 65535},
     records : RecordLists]

\* both commands are run on capFile
Analyze ==
    /\ ~capResult.done
    /\ capResult' = [done |-> TRUE,
                     ok |-> analyze_pcap(capFile).ok,
                     records |-> analyze_pcap(capFile).records,
                     ipv4Records |-> analyze_ipv4_packets(capFile).records]
    /\ UNCHANGED <<capFile, filterVars, statsVars, protocolVars, loadVars>>

InitParser ==
    /\ capFile \in CapFiles
    /\ capResult = [done |-> FALSE, ok |-> FALSE, records |-> <<>>, ipv4Records |-> <<>>]
    /\ FilterIdle
    /\ StatsIdle
    /\ ProtocolIdle
    /\ LoadIdle

NextParser == Analyze

SpecParser == InitParser /\ [][NextParser]_vars

----------------------------------------------------------------------------
(* Properties of the filter *)

\* the time predicate as the specification words it
StatedTimePredicate(packet, f) ==
    LET time == packet.tsSec * 1000 + (packet.tsUsec \div 1000)
    IN  /\ (f.startTime = Null \/ time >= f.startTime[1])
        /\ (f.endTime = Null \/ time <= f.endTime[1])

\* the IP predicate as the specification words it
StatedIpPredicate(packet, f) ==
    \/ f.ipAddress = ""
    \/ f.direction = "source" /\ packet.sourceIp = f.ipAddress
    \/ f.direction = "dest" /\ packet.destIp = f.ipAddress
    \/ f.direction = "any" /\ (packet.sourceIp = f.ipAddress \/ packet.destIp = f.ipAddress)
    \/ f.direction \notin {"any", "source", "dest"}

\* C1: a record passes the time test of the filter exactly when start is
\* unset or time >= start, and end is unset or time <= end, for bounds that
\* are null or any millisecond value, 0 included.
C1_TimePredicate ==
    isFiltered =>
        \A i \in 1..Len(ipv4Packets) :
            timeMatches(ipv4Packets[i], ipv4Filter)
                <=> StatedTimePredicate(ipv4Packets[i], ipv4Filter)

\* C2: with an empty filter address every record passes the IP test; with a
\* non-empty one, 'source' passes exactly the records whose sourceIp is the
\* address, 'dest' those whose destIp is, 'any' those where either is.
C2_IpPredicate ==
    \A i \in 1..Len(ipv4Packets) :
        LET packet == ipv4Packets[i]
            ip == ipv4Filter.ipAddress
            passes == filterCallback(packet, [ipv4Filter EXCEPT !.startTime = Null,
                                                              !.endTime = Null])
        IN  /\ ip = "" => passes
            /\ ip # "" /\ ipv4Filter.direction = "source" =>
                   (passes <=> packet.sourceIp = ip)
            /\ ip # "" /\ ipv4Filter.direction = "dest" =>
                   (passes <=> packet.destIp = ip)
            /\ ip # "" /\ ipv4Filter.direction = "any" =>
                   (passes <=> (packet.sourceIp = ip \/ packet.destIp = ip))

\* a filter on the destination is applied and drops a record whose source is the address
C2_Witness ==
    /\ isFiltered
    /\ ipv4Filter.ipAddress # ""
    /\ ipv4Filter.direction = "dest"
    /\ ipv4Filter.startTime = Null
    /\ ipv4Filter.endTime = Null
    /\ Len(ipv4Packets) = 2
    /\ ipv4Packets[1].sourceIp = ipv4Filter.ipAddress
    /\ ipv4Packets[1].destIp # ipv4Filter.ipAddress
    /\ ipv4Packets[2].destIp = ipv4Filter.ipAddress
    /\ filteredIpv4Packets = <<ipv4Packets[2]>>

\* C3: with a filter applied, the filtered list is exactly the subsequence
\* of the loaded list made of the records that satisfy both the time
\* predicate and the IP predicate, in their original order.
C3_ExactSubsequence ==
    isFiltered =>
        filteredIpv4Packets =
            SelectSeq(ipv4Packets,
                      LAMBDA packet : /\ StatedTimePredicate(packet, ipv4Filter)
                                      /\ StatedIpPredicate(packet, ipv4Filter))

\* C4: the criteria {start: null, end: null, ipAddress: "", direction: "any"}
\* return the record sequence unchanged; after clearFilter and applyFilter
\* every loaded record is shown.
C4_IdentityFilter ==
    LET identity == [startTime |-> Null, endTime |-> Null,
                     ipAddress |-> "", direction |-> "any"]
    IN  /\ Filter(ipv4Packets, identity) = ipv4Packets
        /\ (isFiltered /\ ipv4Filter = identity) => filteredIpv4Packets = ipv4Packets

\* applyFilter has run on the cleared criteria over two distinct records
C4_Witness ==
    /\ isFiltered
    /\ message = "success"
    /\ ipv4Filter = [startTime |-> Null, endTime |-> Null,
                     ipAddress |-> "", direction |-> "any"]
    /\ Len(ipv4Packets) = 2
    /\ ipv4Packets[1] # ipv4Packets[2]
    /\ Len(filteredIpv4Packets) = 2

\* C5: with a non-empty filter address and a direction that is none of
\* 'any', 'source', 'dest', every record passes the IP test, so the result
\* is the one the same criteria give with no filter address at all.
C5_PermissiveDirection ==
    (ipv4Filter.ipAddress # "" /\ ipv4Filter.direction \notin {"any", "source", "dest"}) =>
        /\ \A i \in 1..Len(ipv4Packets) : ipMatches(ipv4Packets[i], ipv4Filter)
        /\ Filter(ipv4Packets, ipv4Filter)
              = Filter(ipv4Packets, [ipv4Filter EXCEPT !.ipAddress = ""])
        /\ isFiltered =>
              filteredIpv4Packets
                  = Filter(ipv4Packets, [ipv4Filter EXCEPT !.ipAddress = ""])

\* an unrecognised direction is applied and a record with neither address equal is shown
C5_Witness ==
    /\ isFiltered
    /\ ipv4Filter.ipAddress # ""
    /\ ipv4Filter.direction = "both"
    /\ \E i \in 1..Len(ipv4Packets) :
          /\ ipv4Packets[i].sourceIp # ipv4Filter.ipAddress
          /\ ipv4Packets[i].destIp # ipv4Filter.ipAddress
          /\ \E j \in 1..Len(filteredIpv4Packets) : filteredIpv4Packets[j] = ipv4Packets[i]

----------------------------------------------------------------------------
(* Properties of the IP distributions *)

RECURSIVE SumOf(_, _)
SumOf(entries, field) ==
    IF entries = <<>> THEN 0
    ELSE entries[1][field] + SumOf(Tail(entries), field)

Abs(n) == IF n < 0 THEN -n ELSE n

\* one entry per distinct address under key, each with the number of its records
ExactCounts(entries, pkts, key) ==
    /\ \A i, j \in 1..Len(entries) : entries[i].name = entries[j].name => i = j
    /\ {entries[i].name : i \in 1..Len(entries)} = {pkts[i][key] : i \in 1..Len(pkts)}
    /\ \A i \in 1..Len(entries) :
          entries[i].value = Cardinality({k \in 1..Len(pkts) : pkts[k][key] = entries[i].name})
    /\ SumOf(entries, "value") = Len(pkts)

\* C6: for a non-empty record sequence the source distribution has exactly
\* one entry per distinct source address, each count is the number of
\* records with that address, and the counts sum to the sequence length;
\* likewise the destination distribution.
C6_CountsSumToLength ==
    statsPackets # <<>> =>
        /\ ~sourceIpStatsValue.dirty =>
              ExactCounts(sourceIpStatsValue.value, statsPackets, "sourceIp")
        /\ ~destIpStatsValue.dirty =>
              ExactCounts(destIpStatsValue.value, statsPackets, "destIp")

\* both distributions are evaluated over records that repeat an address
C6_Witness ==
    /\ Len(statsPackets) = 3
    /\ ~sourceIpStatsValue.dirty
    /\ ~destIpStatsValue.dirty
    /\ Len(sourceIpStatsValue.value) = 2
    /\ Len(destIpStatsValue.value) = 2
    /\ sourceIpStatsValue.value[1].value = 2
    /\ destIpStatsValue.value[1].value = 2

\* C7 as stated: for a non-empty record sequence the percentages of the
\* source distribution sum to a value within 0.1 of 100, whatever the number
\* of distinct addresses.
C7_PercentagesWithinTenth ==
    (statsPackets # <<>> /\ ~sourceIpStatsValue.dirty) =>
        Abs(SumOf(sourceIpStatsValue.value, "percentage") - 10000) <= 10

\* C7 as amended: the percentages of the source distribution sum to a value
\* within 0.005 times the number of entries of 100, hence within 0.1 of 100
\* when there are at most 20 distinct source addresses.
C7_PercentagesWithinHalfPerEntry ==
    (statsPackets # <<>> /\ ~sourceIpStatsValue.dirty) =>
        LET entries == sourceIpStatsValue.value
            off == Abs(SumOf(entries, "percentage") - 10000)
        IN  /\ 2 * off <= Len(entries)
            /\ Len(entries) <= 20 => off <= 10

\* a source distribution of more than 20 entries whose percentages are off 100
C7_Witness ==
    /\ ~sourceIpStatsValue.dirty
    /\ Len(sourceIpStatsValue.value) > 20
    /\ SumOf(sourceIpStatsValue.value, "percentage") # 10000

SortedByCount(entries) ==
    \A i \in 1..(Len(entries) - 1) : entries[i].value >= entries[i + 1].value

\* C8: each distribution is sorted by count in non-increasing order.
C8_SortedByCount ==
    /\ ~sourceIpStatsValue.dirty => SortedByCount(sourceIpStatsValue.value)
    /\ ~destIpStatsValue.dirty => SortedByCount(destIpStatsValue.value)

\* both distributions are evaluated and the address seen first is not the most frequent
C8_Witness ==
    /\ ~sourceIpStatsValue.dirty
    /\ ~destIpStatsValue.dirty
    /\ Len(statsPackets) = 3
    /\ sourceIpStatsValue.value[1].name # statsPackets[1].sourceIp
    /\ sourceIpStatsValue.value[1].value > sourceIpStatsValue.value[2].value
    /\ destIpStatsValue.value[1].name # statsPackets[1].destIp
    /\ destIpStatsValue.value[1].value > destIpStatsValue.value[2].value

\* C9: over an empty record sequence both distributions are empty lists.
C9_EmptyInput ==
    statsPackets = <<>> =>
        /\ ~sourceIpStatsValue.dirty => sourceIpStatsValue.value = <<>>
        /\ ~destIpStatsValue.dirty => destIpStatsValue.value = <<>>

\* both distributions are evaluated over an empty record sequence
C9_Witness ==
    /\ statsPackets = <<>>
    /\ ~sourceIpStatsValue.dirty
    /\ ~destIpStatsValue.dirty
    /\ sourceIpStatsValue.value = <<>>
    /\ destIpStatsValue.value = <<>>

----------------------------------------------------------------------------
(* Properties of the protocol labels *)

\* C10: 1, 2, 6, 17 and 89 resolve to ICMP, IGMP, TCP, UDP and OSPF; every
\* other number n in 0..255 resolves to the unknown label carrying n, and no
\* other number resolves to the same label.
C10_ProtocolResolution ==
    protocolLabel # "" =>
        /\ protocolNum = 1 => protocolLabel = "ICMP"
        /\ protocolNum = 2 => protocolLabel = "IGMP"
        /\ protocolNum = 6 => protocolLabel = "TCP"
        /\ protocolNum = 17 => protocolLabel = "UDP"
        /\ protocolNum = 89 => protocolLabel = "OSPF"
        /\ protocolNum \notin {1, 2, 6, 17, 89} =>
              /\ protocolLabel = "unknown(" \o ToString(protocolNum) \o ")"
              /\ \A m \in 0..MaxProtocol :
                    m # protocolNum => getProtocolName(m) # protocolLabel

\* the unassigned number 250 has been rendered
C10_Witness ==
    /\ protocolNum = 250
    /\ protocolLabel = "unknown(250)"

----------------------------------------------------------------------------
(* Properties of loading *)

\* some Ethernet record of the list carries the timestamp of the IPv4 record
HasOwner(ipRecord) ==
    \E j \in 1..Len(packets) :
        /\ packets[j].tsSec = ipRecord.tsSec
        /\ packets[j].tsUsec = ipRecord.tsUsec

\* C11: whatever loads have taken place and however their backend calls
\* ended, every record of the IPv4 list has an owning record in the Ethernet
\* list with the same (tsSec, tsUsec).  Stated for the states in which no
\* load is under way.
C11_Ipv4RecordsHaveOwners ==
    (\A r \in Runs : ~InFlight(r)) =>
        \A i \in 1..Len(ipv4Packets) : HasOwner(ipv4Packets[i])

\* C13: once two overlapping executions of analyzeFile have both finished
\* well, the Ethernet list and the IPv4 list hold the records of one and the
\* same file.
C13_ListsOfOneFile ==
    (\A r \in Runs : ~InFlight(r) /\ runs[r].outcome = "ok") =>
        \E path \in Paths :
            /\ packets = analyze_pcap(FileAt(path)).records
            /\ ipv4Packets = analyze_ipv4_packets(FileAt(path)).records

\* the step in which the backend call awaited by execution r fails
FailsIn(r) == InFlight(r) /\ runs'[r].outcome = "failed"

\* C14: when a backend call of analyzeFile fails, an error message is shown
\* and the failed call puts no records in either list.
C14_FailureIsReported ==
    [][\A r \in Runs :
          FailsIn(r) => /\ message' = "error"
                        /\ packets' = packets
                        /\ ipv4Packets' = ipv4Packets]_vars

\* an execution has failed after an earlier one had loaded a file
C14_Witness ==
    /\ \E r \in Runs : runs[r].outcome = "failed"
    /\ \A r \in Runs : ~InFlight(r)
    /\ message = "error"
    /\ packets # <<>>
    /\ ipv4Packets # <<>>

\* C17: an execution of analyzeFile on a non-empty path sets isLoading and,
\* its backend calls being answered, ends with isLoading false, whether the
\* calls succeed or fail; on an empty path analyzeFile changes nothing.
C17_LoadingEnds ==
    /\ \A r \in Runs : InFlight(r) ~> (~InFlight(r) /\ ~isLoading)
    /\ [][\A r \in Runs : (~InFlight(r) /\ InFlight(r)') => isLoading']_vars
    /\ [][\A r \in Runs :
             (filePath = "" /\ filePath' = "" /\ runs[r].pc = "idle" /\ runs'[r].pc # "dialog")
                 => UNCHANGED <<filterVars, filePath, packets, isLoading, pageVars>>]_vars

\* one execution has ended well, another has failed, and isLoading is false
C17_Witness ==
    /\ \E r \in Runs : runs[r].outcome = "ok"
    /\ \E r \in Runs : runs[r].outcome = "failed"
    /\ \A r \in Runs : ~InFlight(r)
    /\ ~isLoading

\* C18: isLoading is true in every state in which some execution of
\* analyzeFile is under way, also when two executions overlap.
C18_LoadingWhileInFlight ==
    (\E r \in Runs : InFlight(r)) => isLoading

StatedMac(m) == IF m = MacA THEN "aa:aa:aa:aa:aa:aa" ELSE "bb:bb:bb:bb:bb:bb"

\* the label of the two ethertypes of the capture files
StatedEtherType(code) == IF code = 2048 THEN "IPv4" ELSE "ARP"

\* list holds one Ethernet record for each record of raw, in the same order
MatchesFile(list, raw) ==
    /\ Len(list) = Len(raw)
    /\ \A i \in 1..Len(raw) :
          /\ list[i].source = StatedMac(raw[i].src)
          /\ list[i].target = StatedMac(raw[i].dst)
          /\ list[i].ethType = StatedEtherType(raw[i].ethertype)
          /\ list[i].tsSec = raw[i].tsSec
          /\ list[i].tsUsec = raw[i].tsUsec

\* C15: for a capture file of N well-formed records analyze_pcap returns N
\* Ethernet records in file order with the MAC addresses and the ethertype
\* of the respective record; the App stores that list as returned and the
\* rows of the page on display are consecutive records of it, in its order.
C15_FileOrderKept ==
    /\ \A path \in Paths : MatchesFile(invokeAnalyzePcap[path].records, FileAt(path).records)
    /\ \A r \in Runs : runs[r].pc = "awaitIpv4" =>
           MatchesFile(packets, FileAt(runs[r].path).records)
    /\ packets = <<>> \/ \E path \in Paths : MatchesFile(packets, FileAt(path).records)
    /\ LET start == (currentPage - 1) * packetsPerPage
       IN  /\ Len(paginatedPackets) =
                 Cardinality({i \in 1..Len(packets) : start < i /\ i <= start + packetsPerPage})
           /\ \A j \in 1..Len(paginatedPackets) : paginatedPackets[j] = packets[start + j]

\* the second page of the six-record file is on display
C15_Witness ==
    /\ TabsShown
    /\ Len(packets) = 6
    /\ packetsPerPage = 5
    /\ currentPage = 2
    /\ paginatedPackets = <<packets[6]>>

\* r is wholly in the file
Whole(r) == r.hdr >= 16 /\ r.present >= r.caplen

\* the number of records of the file before its first cut record
WholePrefix(file) ==
    CHOOSE k \in 0..Len(file.records) :
        /\ \A j \in 1..k : Whole(file.records[j])
        /\ k = Len(file.records) \/ ~Whole(file.records[k + 1])

\* the file without its cut record and what follows it
CutOff(file) == [file EXCEPT !.records = SubSeq(file.records, 1, WholePrefix(file))]

\* C16: when the file ends within a record header or within a payload, parsing
\* stops there and the result is a success holding the records decoded
\* before that point: it is the result for the file without the cut record,
\* and it holds one Ethernet record for each whole record before the cut
\* that is within snaplen and carries an Ethernet header.
C16_TruncationPolicy ==
    (capResult.done /\ capFile.magic \in {MagicNative, MagicSwapped}) =>
        /\ capResult.ok
        /\ capResult.records = analyze_pcap(CutOff(capFile)).records
        /\ capResult.ipv4Records = analyze_ipv4_packets(CutOff(capFile)).records
        /\ Len(capResult.records) =
              Cardinality({j \in 1..WholePrefix(capFile) :
                              /\ capFile.records[j].caplen <= capFile.snaplen
                              /\ capFile.records[j].caplen >= 14})

\* a file of two whole records and a cut one has been analysed
C16_Witness ==
    /\ capResult.done
    /\ capResult.ok
    /\ Len(capFile.records) = 3
    /\ WholePrefix(capFile) = 2
    /\ Len(capResult.records) = 2
    /\ Len(capResult.ipv4Records) >= 1

\* C19: whenever the tables are on display the IPv4 page is within
\* 1..max(1, totalIpv4Pages) and the Ethernet page within 1..max(1, totalPages).
C19_PagesInRange ==
    TabsShown =>
        /\ ipv4CurrentPage \in PagesOffered(totalIpv4Pages)
        /\ currentPage \in PagesOffered(totalPages)

\* C20: the step that ends an analyzeFile in success leaves the criteria
\* empty, isFiltered false and the IPv4 page 1; every other step of an
\* analyzeFile, the one that ends it in failure included, leaves the
\* criteria, isFiltered and the IPv4 page as they are.
C20_FilterResetOnSuccess ==
    [][\A r \in Runs :
          /\ (InFlight(r) /\ runs'[r].outcome = "ok") =>
                (ipv4Filter' = EmptyFilter /\ isFiltered' = FALSE /\ ipv4CurrentPage' = 1)
          /\ ((InFlight(r) \/ InFlight(r)') /\ ~(InFlight(r) /\ runs'[r].outcome = "ok")) =>
                UNCHANGED <<ipv4Filter, isFiltered, ipv4CurrentPage>>]_vars

\* a load has failed and the filter applied before it is still in place
C20_Witness ==
    /\ \E r \in Runs : runs[r].outcome = "failed" /\ ~InFlight(r)
    /\ isFiltered
    /\ ipv4Filter # EmptyFilter
    /\ ipv4CurrentPage = 2

====
